---- MODULE Spec2Model ----
(***************************************************************************)
(* git-recent: the interactive branch selector.                            *)
(*                                                                         *)
(* Two programs are modelled:                                              *)
(*   - the filtering selector (src/unnamed/part_000), specification Spec;  *)
(*   - the selector with remote support and no filtering (src/main.go),    *)
(*     specification SpecPlain.                                            *)
(* A branch name and the filter text are sequences of one-character        *)
(* strings; a key is the string bubbletea's KeyMsg.String() gives.         *)
(***************************************************************************)
EXTENDS Integers, Sequences, FiniteSets, TLC

VARIABLES
    branches,         \* model.branches: the list shown
    allBranches,      \* model.allBranches: the unfiltered list
    cursor,           \* model.cursor (0-based)
    offset,           \* model.offset (0-based)
    selected,         \* model.selected
    err,              \* model.err # nil
    filterMode,       \* model.filterMode
    filterText,       \* model.filterText
    filteredApplied,  \* model.filteredApplied
    pc,               \* "running" (in p.Run), "quit" (tea.Quit returned),
                      \* "exited" (main is through), "failed" (p.Run returned an error)
    checkouts,        \* the arguments of the calls of checkoutBranch, in order
    exitCode,         \* the process's exit code, -1 while it runs
    lastKey,          \* the key of the last KeyMsg handled by Update
    lastMode,         \* the mode that key was handled in
    input,            \* the arguments of a helper function called on its own
    output            \* what that call returned: <<>> before it, <<result>> after

vars == <<branches, allBranches, cursor, offset, selected, err, filterMode,
          filterText, filteredApplied, pc, checkouts, exitCode, lastKey, lastMode,
          input, output>>

modelVars == <<branches, allBranches, cursor, offset, selected, err, filterMode,
               filterText, filteredApplied>>

-----------------------------------------------------------------------------
(* Bounds of the model *)

\* the filter text is typed up to this many characters
MaxFilterLen == 2

\* on the scenario list it is typed up to this many characters ("feat")
ScenarioFilterLen == 4

\* the length of the long branch list (more than one page)
MaxBranches == 12

\* a branch name handed to checkoutBranch has up to this many characters
MaxRefLen == 3

\* the output of git for-each-ref has up to this many lines
MaxLines == 3

\* the rows of one page: the literal 10 of Update and View
PageSize == 10

-----------------------------------------------------------------------------
(* Strings *)

UpperLetters == <<"A","B","C","D","E","F","G","H","I","J","K","L","M",
                  "N","O","P","Q","R","S","T","U","V","W","X","Y","Z">>

LowerLetters == <<"a","b","c","d","e","f","g","h","i","j","k","l","m",
                  "n","o","p","q","r","s","t","u","v","w","x","y","z">>

\* strings.ToLower, on one ASCII character
ToLowerChar(c) ==
    IF \E i \in 1..Len(UpperLetters) : UpperLetters[i] = c
    THEN LowerLetters[CHOOSE i \in 1..Len(UpperLetters) : UpperLetters[i] = c]
    ELSE c

\* strings.ToLower
ToLower(s) == [i \in 1..Len(s) |-> ToLowerChar(s[i])]

\* strings.Contains
Contains(s, sub) ==
    \E i \in 0..(Len(s) - Len(sub)) : SubSeq(s, i + 1, i + Len(sub)) = sub

-----------------------------------------------------------------------------
(* The branch lists the Branch Source may return *)

Main_ == <<"m","a","i","n">>
Develop == <<"d","e","v","e","l","o","p">>
FeatureLogin == <<"f","e","a","t","u","r","e","/","l","o","g","i","n">>
FeatureSignup == <<"f","e","a","t","u","r","e","/","s","i","g","n","u","p">>

ScenarioList == <<Main_, Develop, FeatureLogin, FeatureSignup>>

\* the i-th name of the long list: "fe<x>" or "FE<x>", x the i-th letter
LongName(i) ==
    IF i % 2 = 1 THEN <<"f", "e", LowerLetters[i]>>
                 ELSE <<"F", "E", LowerLetters[i]>>

LongList(n) == [i \in 1..n |-> LongName(i)]

BranchLists == {<<>>, ScenarioList, LongList(1), LongList(MaxBranches)}

-----------------------------------------------------------------------------
(* Keys *)

\* the keys pressed in the model
Keys == {"f", "e", "a", "t", "F", "q", "/", "j", "k",
         "ctrl+c", "esc", "up", "down", "enter", "backspace", "tab"}

\* the one-character keys typed into the filter of the scenario list
ScenarioChars == {"f", "e", "a", "t", "F"}

-----------------------------------------------------------------------------
(* initialModel, part_000 *)

Init ==
    /\ \E fetched \in [list : BranchLists, failed : {FALSE}]
                      \cup {[list |-> <<>>, failed |-> TRUE]} :
          /\ branches = fetched.list
          /\ allBranches = fetched.list
          /\ err = fetched.failed
    /\ cursor = 0
    /\ offset = 0
    /\ selected = FALSE
    /\ filterMode = FALSE
    /\ filterText = <<>>
    /\ filteredApplied = FALSE
    /\ pc = "running"
    /\ checkouts = <<>>
    /\ exitCode = -1
    /\ lastKey = "none"
    /\ lastMode = "none"
    /\ input = [fn |-> "none"]
    /\ output = <<>>

\* what every Update of a KeyMsg records
Handled(key) ==
    /\ pc = "running"
    /\ lastKey' = key
    /\ lastMode' = IF filterMode THEN "Filtering" ELSE "Browsing"
    /\ UNCHANGED <<allBranches, err, checkouts, exitCode, input, output>>

\* the bound on typing: which one-character keys are typed, and how many
Typable(key) ==
    IF allBranches = ScenarioList
    THEN key \in ScenarioChars /\ Len(filterText) < ScenarioFilterLen
    ELSE Len(filterText) < MaxFilterLen

-----------------------------------------------------------------------------
(* model.applyFilter *)

RECURSIVE FilterLoop(_, _, _, _)
FilterLoop(all, i, filterLower, filtered) ==
    IF i > Len(all) THEN filtered
    ELSE FilterLoop(all, i + 1, filterLower,
                    IF Contains(ToLower(all[i]), filterLower)
                    THEN Append(filtered, all[i])
                    ELSE filtered)

RECURSIVE FilterLoopPrepending(_, _, _, _)
FilterLoopPrepending(all, i, filterLower, filtered) ==
    IF i > Len(all) THEN filtered
    ELSE FilterLoopPrepending(all, i + 1, filterLower,
                              IF Contains(ToLower(all[i]), filterLower)
                              THEN <<all[i]>> \o filtered
                              ELSE filtered)

applyFilterPrepending(text) ==
    /\ branches' = IF text = <<>> THEN allBranches
                   ELSE FilterLoopPrepending(allBranches, 1, ToLower(text), <<>>)
    /\ cursor' = 0
    /\ offset' = 0

applyFilterCaseSensitive(text) ==
    /\ branches' = IF text = <<>> THEN allBranches
                   ELSE FilterLoop(allBranches, 1, text, <<>>)
    /\ cursor' = 0
    /\ offset' = 0

\* m.filterText is already the new text when applyFilter runs
applyFilter(text) ==
    IF text = <<>>
    THEN /\ branches' = allBranches
         /\ cursor' = 0
         /\ offset' = 0
    ELSE /\ branches' = FilterLoop(allBranches, 1, ToLower(text), <<>>)
         /\ cursor' = 0
         /\ offset' = 0

-----------------------------------------------------------------------------
(* model.Update, filter mode (part_000 lines 73-100) *)

FilterEscKeepList ==
    /\ filterMode
    /\ Handled("esc")
    /\ filterMode' = FALSE
    /\ filterText' = <<>>
    /\ cursor' = 0
    /\ offset' = 0
    /\ filteredApplied' = FALSE
    /\ UNCHANGED <<branches, selected, pc>>

FilterEsc ==
    /\ filterMode
    /\ Handled("esc")
    /\ filterMode' = FALSE
    /\ filterText' = <<>>
    /\ branches' = allBranches
    /\ cursor' = 0
    /\ offset' = 0
    /\ filteredApplied' = FALSE
    /\ UNCHANGED <<selected, pc>>

FilterEnterRestoring ==
    /\ filterMode
    /\ Handled("enter")
    /\ filterMode' = FALSE
    /\ filteredApplied' = TRUE
    /\ branches' = allBranches
    /\ UNCHANGED <<cursor, offset, filterText, selected, pc>>

FilterEnter ==
    /\ filterMode
    /\ Handled("enter")
    /\ filterMode' = FALSE
    /\ filteredApplied' = TRUE
    /\ UNCHANGED <<branches, cursor, offset, filterText, selected, pc>>

FilterBackspaceNoRecompute ==
    /\ filterMode
    /\ Handled("backspace")
    /\ IF Len(filterText) > 0
       THEN /\ filterText' = SubSeq(filterText, 1, Len(filterText) - 1)
            /\ UNCHANGED <<branches, cursor, offset>>
       ELSE UNCHANGED <<filterText, branches, cursor, offset>>
    /\ UNCHANGED <<filterMode, filteredApplied, selected, pc>>

FilterBackspace ==
    /\ filterMode
    /\ Handled("backspace")
    /\ IF Len(filterText) > 0
       THEN /\ filterText' = SubSeq(filterText, 1, Len(filterText) - 1)
            /\ applyFilter(filterText')
       ELSE UNCHANGED <<filterText, branches, cursor, offset>>
    /\ UNCHANGED <<filterMode, filteredApplied, selected, pc>>

FilterDefaultCtrlCQuits(key) ==
    /\ filterMode
    /\ key \notin {"esc", "enter", "backspace"}
    /\ Handled(key)
    /\ IF Len(key) = 1
       THEN /\ Typable(key)
            /\ filterText' = Append(filterText, key)
            /\ applyFilter(filterText')
       ELSE UNCHANGED <<filterText, branches, cursor, offset>>
    /\ pc' = IF key = "ctrl+c" THEN "quit" ELSE pc
    /\ UNCHANGED <<filterMode, filteredApplied, selected>>

FilterDefault(key) ==
    /\ filterMode
    /\ key \notin {"esc", "enter", "backspace"}
    /\ Handled(key)
    /\ IF Len(key) = 1
       THEN /\ Typable(key)
            /\ filterText' = Append(filterText, key)
            /\ applyFilter(filterText')
       ELSE UNCHANGED <<filterText, branches, cursor, offset>>
    /\ UNCHANGED <<filterMode, filteredApplied, selected, pc>>

-----------------------------------------------------------------------------
(* model.Update, normal mode (part_000 lines 102-146) *)

NormalQuit(key) ==
    /\ ~filterMode
    /\ key \in {"ctrl+c", "q"}
    /\ Handled(key)
    /\ pc' = "quit"
    /\ UNCHANGED modelVars

NormalEscKeepCursor ==
    /\ ~filterMode
    /\ Handled("esc")
    /\ IF filteredApplied
       THEN /\ branches' = allBranches
            /\ filterText' = <<>>
            /\ filteredApplied' = FALSE
            /\ UNCHANGED <<cursor, offset, pc>>
       ELSE /\ pc' = "quit"
            /\ UNCHANGED <<branches, filterText, cursor, offset, filteredApplied>>
    /\ UNCHANGED <<selected, filterMode>>

NormalEscNeverQuits ==
    /\ ~filterMode
    /\ Handled("esc")
    /\ IF filteredApplied
       THEN /\ branches' = allBranches
            /\ filterText' = <<>>
            /\ cursor' = 0
            /\ offset' = 0
            /\ filteredApplied' = FALSE
       ELSE UNCHANGED <<branches, filterText, cursor, offset, filteredApplied>>
    /\ UNCHANGED <<selected, filterMode, pc>>

NormalEsc ==
    /\ ~filterMode
    /\ Handled("esc")
    /\ IF filteredApplied
       THEN /\ branches' = allBranches
            /\ filterText' = <<>>
            /\ cursor' = 0
            /\ offset' = 0
            /\ filteredApplied' = FALSE
            /\ UNCHANGED pc
       ELSE /\ pc' = "quit"
            /\ UNCHANGED <<branches, filterText, cursor, offset, filteredApplied>>
    /\ UNCHANGED <<selected, filterMode>>

NormalSlash ==
    /\ ~filterMode
    /\ Handled("/")
    /\ filterMode' = TRUE
    /\ filterText' = <<>>
    /\ UNCHANGED <<branches, cursor, offset, selected, filteredApplied, pc>>

MoveUpNoScroll ==
    IF cursor > 0
    THEN /\ cursor' = cursor - 1
         /\ UNCHANGED offset
    ELSE UNCHANGED <<cursor, offset>>

\* the "up", "k" case, shared by both programs
MoveUp ==
    IF cursor > 0
    THEN /\ cursor' = cursor - 1
         /\ offset' = IF cursor' < offset THEN offset - 1 ELSE offset
    ELSE UNCHANGED <<cursor, offset>>

MoveDownNoScroll ==
    IF cursor < Len(branches) - 1
    THEN /\ cursor' = cursor + 1
         /\ UNCHANGED offset
    ELSE UNCHANGED <<cursor, offset>>

MoveDownNoClamp ==
    /\ cursor' = cursor + 1
    /\ offset' = IF cursor' >= offset + PageSize THEN offset + 1 ELSE offset

\* the "down", "j" case, shared by both programs
MoveDown ==
    IF cursor < Len(branches) - 1
    THEN /\ cursor' = cursor + 1
         /\ offset' = IF cursor' >= offset + PageSize THEN offset + 1 ELSE offset
    ELSE UNCHANGED <<cursor, offset>>

NormalUp(key) ==
    /\ ~filterMode
    /\ key \in {"up", "k"}
    /\ Handled(key)
    /\ MoveUp
    /\ UNCHANGED <<branches, selected, filterMode, filterText, filteredApplied, pc>>

NormalDown(key) ==
    /\ ~filterMode
    /\ key \in {"down", "j"}
    /\ Handled(key)
    /\ MoveDown
    /\ UNCHANGED <<branches, selected, filterMode, filterText, filteredApplied, pc>>

NormalEnterNoSelect ==
    /\ ~filterMode
    /\ Handled("enter")
    /\ pc' = "quit"
    /\ UNCHANGED modelVars

NormalEnter ==
    /\ ~filterMode
    /\ Handled("enter")
    /\ selected' = TRUE
    /\ pc' = "quit"
    /\ UNCHANGED <<branches, cursor, offset, filterMode, filterText, filteredApplied>>

\* a key no case of the switch names
NormalOther(key) ==
    /\ ~filterMode
    /\ key \notin {"ctrl+c", "q", "esc", "/", "up", "k", "down", "j", "enter"}
    /\ Handled(key)
    /\ UNCHANGED modelVars
    /\ UNCHANGED pc

Update(key) ==
    \/ FilterEsc /\ key = "esc"
    \/ FilterEnter /\ key = "enter"
    \/ FilterBackspace /\ key = "backspace"
    \/ FilterDefault(key)
    \/ NormalQuit(key)
    \/ NormalEsc /\ key = "esc"
    \/ NormalSlash /\ key = "/"
    \/ NormalUp(key)
    \/ NormalDown(key)
    \/ NormalEnter /\ key = "enter"
    \/ NormalOther(key)

-----------------------------------------------------------------------------
(* model.View, part_000 lines 169-214: what is drawn, without the styling *)

\* the loop over the rows offset .. end-1
RECURSIVE ViewRows(_, _, _)
ViewRows(i, end, rows) ==
    IF i >= end THEN rows
    ELSE ViewRows(i + 1, end,
                  Append(rows, [branch |-> branches[i + 1],
                                highlighted |-> (cursor = i)]))

ViewFromTop ==
    IF err
    THEN [kind |-> "error", rows |-> <<>>, footer |-> "none", text |-> <<>>]
    ELSE IF Len(branches) = 0
    THEN IF filterMode
         THEN [kind |-> "noMatch", rows |-> <<>>, footer |-> "filtering",
               text |-> filterText]
         ELSE [kind |-> "noBranches", rows |-> <<>>, footer |-> "none",
               text |-> <<>>]
    ELSE LET end == IF PageSize > Len(branches) THEN Len(branches) ELSE PageSize
         IN  [kind |-> "list",
              rows |-> ViewRows(0, end, <<>>),
              footer |-> IF filterMode THEN "filtering"
                         ELSE IF filteredApplied THEN "filtered"
                         ELSE "browsing",
              text |-> IF filterMode \/ filteredApplied THEN filterText ELSE <<>>]

View ==
    IF err
    THEN [kind |-> "error", rows |-> <<>>, footer |-> "none", text |-> <<>>]
    ELSE IF Len(branches) = 0
    THEN IF filterMode
         THEN [kind |-> "noMatch", rows |-> <<>>, footer |-> "filtering",
               text |-> filterText]
         ELSE [kind |-> "noBranches", rows |-> <<>>, footer |-> "none",
               text |-> <<>>]
    ELSE LET end == IF offset + PageSize > Len(branches)
                    THEN Len(branches)
                    ELSE offset + PageSize
         IN  [kind |-> "list",
              rows |-> ViewRows(offset, end, <<>>),
              footer |-> IF filterMode THEN "filtering"
                         ELSE IF filteredApplied THEN "filtered"
                         ELSE "browsing",
              text |-> IF filterMode \/ filteredApplied THEN filterText ELSE <<>>]

-----------------------------------------------------------------------------
(* main, part_000 lines 239-259 *)

\* p.Run() returns an error
RunFails ==
    /\ pc = "running"
    /\ pc' = "failed"
    /\ exitCode' = 1
    /\ UNCHANGED <<modelVars, checkouts, lastKey, lastMode, input, output>>

\* checkoutBranch(selectedBranch, remote) runs git checkout, which succeeds or fails
Checkout(branch) ==
    /\ checkouts' = Append(checkouts, branch)
    /\ \E ok \in BOOLEAN : exitCode' = IF ok THEN 0 ELSE 1

MainIgnoringSelected ==
    /\ pc = "quit"
    /\ pc' = "exited"
    /\ IF err
       THEN exitCode' = 1 /\ UNCHANGED checkouts
       ELSE IF Len(branches) > 0
            THEN Checkout(branches[cursor + 1])
            ELSE exitCode' = 0 /\ UNCHANGED checkouts
    /\ UNCHANGED <<modelVars, lastKey, lastMode, input, output>>

\* main after p.Run() has returned the final model
Main ==
    /\ pc = "quit"
    /\ pc' = "exited"
    /\ IF err
       THEN exitCode' = 1 /\ UNCHANGED checkouts
       ELSE IF selected /\ Len(branches) > 0
            THEN Checkout(branches[cursor + 1])
            ELSE exitCode' = 0 /\ UNCHANGED checkouts
    /\ UNCHANGED <<modelVars, lastKey, lastMode, input, output>>

Next ==
    \/ \E key \in Keys : Update(key)
    \/ Main
    \/ RunFails

Spec == Init /\ [][Next]_vars

-----------------------------------------------------------------------------
(* The program of src/main.go: remote support, no filtering.  Its model has *)
(* no allBranches, selected or filter fields: they keep their first values. *)

InitPlain ==
    /\ \E fetched \in [list : BranchLists, failed : {FALSE}]
                      \cup {[list |-> <<>>, failed |-> TRUE]} :
          /\ branches = fetched.list
          /\ allBranches = fetched.list
          /\ err = fetched.failed
    /\ cursor = 0
    /\ offset = 0
    /\ selected = FALSE
    /\ filterMode = FALSE
    /\ filterText = <<>>
    /\ filteredApplied = FALSE
    /\ pc = "running"
    /\ checkouts = <<>>
    /\ exitCode = -1
    /\ lastKey = "none"
    /\ lastMode = "none"
    /\ input = [fn |-> "none"]
    /\ output = <<>>

PlainQuit(key) ==
    /\ key \in {"ctrl+c", "q"}
    /\ Handled(key)
    /\ pc' = "quit"
    /\ UNCHANGED modelVars

PlainUp(key) ==
    /\ key \in {"up", "k"}
    /\ Handled(key)
    /\ MoveUp
    /\ UNCHANGED <<branches, selected, filterMode, filterText, filteredApplied, pc>>

PlainDown(key) ==
    /\ key \in {"down", "j"}
    /\ Handled(key)
    /\ MoveDown
    /\ UNCHANGED <<branches, selected, filterMode, filterText, filteredApplied, pc>>

PlainEnter ==
    /\ Handled("enter")
    /\ pc' = "quit"
    /\ UNCHANGED modelVars

\* a key no case of the switch names: "esc" is one
PlainOther(key) ==
    /\ key \notin {"ctrl+c", "q", "up", "k", "down", "j", "enter"}
    /\ Handled(key)
    /\ UNCHANGED modelVars
    /\ UNCHANGED pc

UpdatePlain(key) ==
    \/ PlainQuit(key)
    \/ PlainUp(key)
    \/ PlainDown(key)
    \/ PlainEnter /\ key = "enter"
    \/ PlainOther(key)

\* main of src/main.go after p.Run() has returned the final model
MainPlain ==
    /\ pc = "quit"
    /\ pc' = "exited"
    /\ IF err
       THEN exitCode' = 1 /\ UNCHANGED checkouts
       ELSE IF Len(branches) > 0
            THEN Checkout(branches[cursor + 1])
            ELSE exitCode' = 0 /\ UNCHANGED checkouts
    /\ UNCHANGED <<modelVars, lastKey, lastMode, input, output>>

NextPlain ==
    \/ \E key \in Keys : UpdatePlain(key)
    \/ MainPlain
    \/ RunFails

SpecPlain == InitPlain /\ [][NextPlain]_vars

-----------------------------------------------------------------------------
(* The helper functions, called on their own: specification SpecCalls *)

\* strings.HasSuffix
HasSuffix(s, suffix) ==
    /\ Len(s) >= Len(suffix)
    /\ SubSeq(s, Len(s) - Len(suffix) + 1, Len(s)) = suffix

\* strings.SplitN(s, "/", 2)
SplitN2(s) ==
    IF \E i \in 1..Len(s) : s[i] = "/"
    THEN LET i == CHOOSE k \in 1..Len(s) :
                      s[k] = "/" /\ \A j \in 1..(k - 1) : s[j] # "/"
         IN  <<SubSeq(s, 1, i - 1), SubSeq(s, i + 1, Len(s))>>
    ELSE <<s>>

\* checkoutBranch: the git command it runs, "git checkout [--track] <target>"
checkoutBranch(branch, remote) ==
    IF remote
    THEN LET parts == SplitN2(branch)
         IN  IF Len(parts) = 2
             THEN [track |-> FALSE, target |-> parts[2]]
             ELSE [track |-> TRUE, target |-> branch]
    ELSE [track |-> FALSE, target |-> branch]

SlashHead == <<"/", "H", "E", "A", "D">>

\* strings.Split(strings.TrimSpace(output), "\n"), the output given as its lines:
\* the blank lines at both ends are trimmed away, and splitting the empty
\* text gives one empty string
TrimSplit(lines) ==
    LET full == {i \in 1..Len(lines) : lines[i] # <<>>}
    IN  IF full = {} THEN << <<>> >>
        ELSE SubSeq(lines,
                    CHOOSE i \in full : \A j \in full : i <= j,
                    CHOOSE i \in full : \A j \in full : i >= j)

RECURSIVE KeepLoop(_, _, _)
KeepLoop(split, i, filtered) ==
    IF i > Len(split) THEN filtered
    ELSE KeepLoop(split, i + 1,
                  IF split[i] # <<>> /\ ~HasSuffix(split[i], SlashHead)
                  THEN Append(filtered, split[i])
                  ELSE filtered)

RECURSIVE KeepNonEmptyLoop(_, _, _)
KeepNonEmptyLoop(split, i, filtered) ==
    IF i > Len(split) THEN filtered
    ELSE KeepNonEmptyLoop(split, i + 1,
                          IF split[i] # <<>>
                          THEN Append(filtered, split[i])
                          ELSE filtered)

getRecentBranchesKeepingHead(failed, lines) ==
    IF failed
    THEN [list |-> <<>>, failed |-> TRUE]
    ELSE [list |-> KeepNonEmptyLoop(TrimSplit(lines), 1, <<>>), failed |-> FALSE]

\* getRecentBranches: failed when cmd.Output() returns an error
getRecentBranches(failed, lines) ==
    IF failed
    THEN [list |-> <<>>, failed |-> TRUE]
    ELSE [list |-> KeepLoop(TrimSplit(lines), 1, <<>>), failed |-> FALSE]

\* the sequences over chars of lengths lo..hi
SeqsOf(chars, lo, hi) == UNION {[1..n -> chars] : n \in lo..hi}

OriginFeatureX == <<"o","r","i","g","i","n","/","f","e","a","t","u","r","e","/","x">>
FeatureX == <<"f","e","a","t","u","r","e","/","x">>

\* the branch names handed to checkoutBranch
RefNames == SeqsOf({"o", "x", "/"}, 1, MaxRefLen) \cup {OriginFeatureX}

OriginHead == <<"o", "/", "H", "E", "A", "D">>
OriginMain == <<"o", "/", "m">>
HeadName == <<"H", "E", "A", "D">>
HeadInside == <<"o", "/", "H", "E", "A", "D", "/", "x">>

\* the lines git for-each-ref may print
RefLines == {<<>>, Main_, OriginMain, OriginHead, HeadName, HeadInside}

\* no selector runs in SpecCalls
NoSession ==
    /\ branches = <<>>
    /\ allBranches = <<>>
    /\ cursor = 0
    /\ offset = 0
    /\ selected = FALSE
    /\ err = FALSE
    /\ filterMode = FALSE
    /\ filterText = <<>>
    /\ filteredApplied = FALSE
    /\ checkouts = <<>>
    /\ exitCode = -1
    /\ lastKey = "none"
    /\ lastMode = "none"

\* canTrack: whether the repository has, or git can infer, a local branch
\* tracking the selected remote branch; checkoutBranch never asks
InitCalls ==
    /\ NoSession
    /\ pc = "call"
    /\ output = <<>>
    /\ \/ input \in [fn : {"checkoutBranch"}, branch : RefNames,
                     remote : BOOLEAN, canTrack : BOOLEAN]
       \/ input \in [fn : {"getRecentBranches"}, failed : BOOLEAN,
                     lines : SeqsOf(RefLines, 0, MaxLines)]

CallCheckoutBranch ==
    /\ pc = "call"
    /\ input.fn = "checkoutBranch"
    /\ output' = <<checkoutBranch(input.branch, input.remote)>>
    /\ pc' = "returned"
    /\ UNCHANGED <<modelVars, checkouts, exitCode, lastKey, lastMode, input>>

CallGetRecentBranches ==
    /\ pc = "call"
    /\ input.fn = "getRecentBranches"
    /\ output' = <<getRecentBranches(input.failed, input.lines)>>
    /\ pc' = "returned"
    /\ UNCHANGED <<modelVars, checkouts, exitCode, lastKey, lastMode, input>>

NextCalls ==
    \/ CallCheckoutBranch
    \/ CallGetRecentBranches

SpecCalls == InitCalls /\ [][NextCalls]_vars

-----------------------------------------------------------------------------
(* Properties *)

\* a step of Update: in [][...]_vars, a step that handles the key lastKey'
KeyStep == pc = "running" /\ pc' \in {"running", "quit"}

Feat == <<"f", "e", "a", "t">>

\* C1: the checkout collaborator is called at most once, only after the
\* session has ended, and exactly when the session ended with the confirm key
\* pressed in Browsing mode on a non-empty visible list; its argument is then
\* visible[cursorIndex].
C1_CheckoutExactlyOnConfirm ==
    /\ Len(checkouts) <= 1
    /\ pc # "exited" => checkouts = <<>>
    /\ pc = "exited" =>
         checkouts = IF lastKey = "enter" /\ lastMode = "Browsing" /\ Len(branches) > 0
                     THEN <<branches[cursor + 1]>>
                     ELSE <<>>

\* C1 witness: a filter was committed, the cursor moved to the 2nd match,
\* confirm was pressed and that entry was checked out.
C1_Witness ==
    /\ pc = "exited"
    /\ lastKey = "enter"
    /\ filteredApplied
    /\ cursor = 1
    /\ checkouts = <<FeatureSignup>>

\* C2: in Browsing mode (the source did not fail) q and Ctrl+C, and Esc when
\* no filter is committed, end the session without selecting anything and
\* leave the view state as it was; a session ended by one of these keys
\* attempts no checkout and exits with code 0.
C2_CancelIsNotFailure ==
    /\ [][(/\ KeyStep
           /\ ~err
           /\ ~filterMode
           /\ \/ lastKey' \in {"q", "ctrl+c"}
              \/ lastKey' = "esc" /\ ~filteredApplied)
          => (/\ pc' = "quit"
              /\ ~selected'
              /\ checkouts' = <<>>
              /\ UNCHANGED <<branches, cursor, offset>>)]_vars
    /\ []((pc = "exited" /\ ~err /\ lastKey \in {"q", "ctrl+c", "esc"})
          => (checkouts = <<>> /\ exitCode = 0))

\* C2 witness: the session was ended with Esc, with the cursor on a later
\* entry of a non-empty list, and the process has exited.
C2_Witness ==
    /\ pc = "exited"
    /\ ~err
    /\ lastKey = "esc"
    /\ cursor > 0
    /\ Len(branches) > 1

\* C3 (as claimed): in the program of src/main.go, on a non-empty branch
\* list, a session in which q, Esc or Ctrl+C was the last key pressed
\* attempts no checkout.
C3_QuitKeysNeverCheckout ==
    (~err /\ Len(branches) > 0 /\ lastKey \in {"q", "esc", "ctrl+c"})
    => checkouts = <<>>

\* C4: in every reachable state windowStart >= 0 and
\* windowStart <= cursorIndex < windowStart + 10.
C4_CursorInWindow ==
    /\ offset >= 0
    /\ offset <= cursor
    /\ cursor < offset + PageSize

\* C4 witness: a committed filter shows more than a page and the window
\* has scrolled down to keep the cursor in it.
C4_Witness ==
    /\ filteredApplied
    /\ ~filterMode
    /\ offset > 0
    /\ cursor = offset + PageSize - 1

\* C5: in every reachable state 0 <= cursorIndex < len(visible) when visible
\* is non-empty and cursorIndex = 0 when it is empty; move-down at the last
\* entry and move-up at entry 0 leave cursorIndex unchanged.
C5_CursorInList ==
    /\ [](/\ Len(branches) > 0 => (0 <= cursor /\ cursor < Len(branches))
          /\ Len(branches) = 0 => cursor = 0)
    /\ [][(/\ KeyStep
           /\ ~filterMode
           /\ \/ lastKey' \in {"down", "j"} /\ cursor = Len(branches) - 1
              \/ lastKey' \in {"up", "k"} /\ cursor = 0)
          => cursor' = cursor]_vars

\* C5 witness: filtering shrank a longer list to one entry, and move-down
\* was pressed on it: the cursor is still on that entry.
C5_Witness ==
    /\ Len(allBranches) > 1
    /\ filteredApplied
    /\ Len(branches) = 1
    /\ lastKey = "down"
    /\ lastMode = "Browsing"
    /\ pc = "running"
    /\ cursor = 0

\* two characters that differ at most in case
SameLetter(c, d) ==
    \/ c = d
    \/ \E i \in 1..Len(UpperLetters) : {c, d} = {UpperLetters[i], LowerLetters[i]}

\* name has text as a case-insensitive substring
MatchesFold(name, text) ==
    \E i \in 0..(Len(name) - Len(text)) :
        \A j \in 1..Len(text) : SameLetter(name[i + j], text[j])

\* the entries of BranchList that match text, in BranchList order
Matching(text) == SelectSeq(allBranches, LAMBDA name : MatchesFold(name, text))

\* C6: after every one-character key and every effective erase in Filtering
\* mode, visible is the subsequence of BranchList whose entries contain
\* filterText as a case-insensitive substring (all of BranchList for the
\* empty text), and cursorIndex = 0 and windowStart = 0; on the scenario list
\* "feat" (also typed "Feat") shows feature/login and feature/signup, and
\* "FEAT" matches "feature/x".
C6_FilterRecomputation ==
    /\ [][(/\ KeyStep
           /\ filterMode
           /\ \/ Len(lastKey') = 1
              \/ lastKey' = "backspace" /\ Len(filterText) > 0)
          => (/\ branches' = Matching(filterText')
              /\ filterText' # filterText
              /\ cursor' = 0
              /\ offset' = 0)]_vars
    /\ []((/\ allBranches = ScenarioList
           /\ filterMode
           /\ filterText \in {Feat, <<"F", "e", "a", "t">>})
          => (branches = <<FeatureLogin, FeatureSignup>> /\ cursor = 0))
    /\ [](FilterLoop(<<Main_, <<"f","e","a","t","u","r","e","/","x">>>>, 1,
                     ToLower(<<"F", "E", "A", "T">>), <<>>)
          = <<<<"f","e","a","t","u","r","e","/","x">>>>)

\* C6 witness: "Feat" has just been typed on the scenario list.
C6_Witness ==
    /\ allBranches = ScenarioList
    /\ filterMode
    /\ filterText = <<"F", "e", "a", "t">>
    /\ lastKey = "t"
    /\ branches = <<FeatureLogin, FeatureSignup>>

\* C7: the cancel key pressed in Browsing mode on a committed filter restores
\* visible to BranchList, resets the cursor and the window, clears
\* filterCommitted and does not end the session, wherever the cursor was.
C7_ClearRestoresBranchList ==
    [][(KeyStep /\ ~filterMode /\ filteredApplied /\ lastKey' = "esc")
       => (/\ branches' = allBranches
           /\ allBranches' = allBranches
           /\ cursor' = 0
           /\ offset' = 0
           /\ ~filteredApplied'
           /\ ~filterMode'
           /\ pc' = "running")]_vars

\* C7 witness: a committed filter on a list of several branches has just
\* been cleared with the cancel key.
C7_Witness ==
    /\ lastKey = "esc"
    /\ lastMode = "Browsing"
    /\ pc = "running"
    /\ Len(allBranches) > 1
    /\ branches = allBranches

\* C8 (as claimed): on the scenario list, once "feat" is typed in Filtering
\* mode and the confirm key is pressed, the outcome is Selected(feature/login).
C8_ConfirmAfterTypingSelects ==
    (/\ allBranches = ScenarioList
     /\ ~err
     /\ filterText = Feat
     /\ lastKey = "enter"
     /\ lastMode = "Filtering")
    => (/\ pc \in {"quit", "exited"}
        /\ selected
        /\ branches[cursor + 1] = FeatureLogin)

\* C8 (amended): on the scenario list with "feat" typed, the confirm key
\* pressed in Filtering mode commits the filter and the session goes on in
\* Browsing mode with visible = [feature/login, feature/signup] and the
\* cursor at 0; the confirm key pressed again, in Browsing mode with the
\* cursor at 0, ends the session with feature/login selected, and
\* feature/login is what is checked out.
C8_SecondConfirmSelects ==
    /\ (/\ allBranches = ScenarioList
        /\ filterText = Feat
        /\ lastKey = "enter"
        /\ lastMode = "Filtering")
       => (/\ pc \in {"running", "failed"}
           /\ ~filterMode
           /\ filteredApplied
           /\ ~selected
           /\ branches = <<FeatureLogin, FeatureSignup>>
           /\ cursor = 0
           /\ checkouts = <<>>)
    /\ (/\ allBranches = ScenarioList
        /\ filterText = Feat
        /\ filteredApplied
        /\ lastKey = "enter"
        /\ lastMode = "Browsing"
        /\ cursor = 0)
       => (/\ pc \in {"quit", "exited"}
           /\ selected
           /\ branches[cursor + 1] = FeatureLogin
           /\ pc = "exited" => checkouts = <<FeatureLogin>>)

\* C8 witness: the scenario has run to its end: feature/login is checked out.
C8_Witness ==
    /\ allBranches = ScenarioList
    /\ filterText = Feat
    /\ filteredApplied
    /\ lastKey = "enter"
    /\ pc = "exited"
    /\ checkouts = <<FeatureLogin>>

\* C9 (as claimed): when visible is empty and the source did not fail, the
\* confirm key pressed in Browsing mode does not end the session and selects
\* nothing.
C9_ConfirmOnEmptyIsNoOp ==
    (~err /\ Len(branches) = 0 /\ lastKey = "enter" /\ lastMode = "Browsing")
    => (pc \in {"running", "failed"} /\ ~selected)

\* C10 (as claimed): when the Branch Source has failed no key is ever handled,
\* no checkout is attempted and the run ends with a non-zero exit code.
C10_SourceErrorNoInteraction ==
    err => (/\ lastKey = "none"
            /\ checkouts = <<>>
            /\ pc \in {"exited", "failed"} => exitCode = 1)

\* the view Filtering mode shows for filterText once it has been recomputed
Recomputed ==
    /\ branches = Matching(filterText)
    /\ cursor = 0
    /\ offset = 0

\* C11 (as claimed): within Filtering mode visible, cursorIndex and
\* windowStart depend on filterText alone: they are what recomputing the
\* filter for that text gives, whatever keys led to it.
C11_FilterTextDeterminesView ==
    (filterMode /\ pc = "running") => Recomputed

\* C11 (amended): within one Filtering session, key sequences that end with
\* the same filterText give the same visible, cursorIndex and windowStart
\* provided each holds a one-character key or an effective erase: any
\* non-empty filterText has the recomputed view, a step that empties the text
\* gives it, and a key that keeps the session in Filtering mode keeps it.
C11_RecomputedViewIsPathIndependent ==
    /\ []((filterMode /\ filterText # <<>>) => Recomputed)
    /\ [][(/\ KeyStep
           /\ filterMode
           /\ filterMode'
           /\ filterText # filterText' \/ Recomputed)
          => Recomputed']_vars

\* C11 witness: two characters were typed and the second erased: the text is
\* "f" again and the view is the one for "f".
C11_Witness ==
    /\ filterMode
    /\ lastKey = "backspace"
    /\ filterText = <<"f">>
    /\ Len(branches) > 1
    /\ Recomputed

\* the part of name after its first "/", when it has the form <remote>/<local>
HasRemoteForm(name) ==
    \E i \in 2..(Len(name) - 1) : name[i] = "/" /\ \A j \in 1..(i - 1) : name[j] # "/"

LocalName(name) ==
    LET i == CHOOSE k \in 2..(Len(name) - 1) :
                 name[k] = "/" /\ \A j \in 1..(k - 1) : name[j] # "/"
    IN  [j \in 1..(Len(name) - i) |-> name[i + j]]

\* C12 (as claimed): in Remote scope a branch <remote>/<localName> is checked
\* out as <localName> when a local tracking branch exists or can be inferred,
\* and otherwise a tracking branch is created from the full remote ref; in
\* Local scope the selected name is checked out unchanged.
C12_CheckoutTarget ==
    (pc = "returned" /\ input.fn = "checkoutBranch")
    => IF ~input.remote
       THEN output[1] = [track |-> FALSE, target |-> input.branch]
       ELSE HasRemoteForm(input.branch)
            => output[1] = IF input.canTrack
                           THEN [track |-> FALSE, target |-> LocalName(input.branch)]
                           ELSE [track |-> TRUE, target |-> input.branch]

\* a name ends in "/HEAD"
EndsInSlashHead(name) ==
    /\ Len(name) >= 5
    /\ name[Len(name) - 4] = "/"
    /\ name[Len(name) - 3] = "H"
    /\ name[Len(name) - 2] = "E"
    /\ name[Len(name) - 1] = "A"
    /\ name[Len(name)] = "D"

\* C13: the list the Branch Source returns holds no empty name and no entry
\* ending in "/HEAD", and is the other lines of git's output in their order.
C13_SourceDropsEmptyAndHead ==
    (pc = "returned" /\ input.fn = "getRecentBranches" /\ ~input.failed)
    => (/\ ~output[1].failed
        /\ \A i \in 1..Len(output[1].list) :
               output[1].list[i] # <<>> /\ ~EndsInSlashHead(output[1].list[i])
        /\ output[1].list =
               SelectSeq(input.lines,
                         LAMBDA line : line # <<>> /\ ~EndsInSlashHead(line)))

\* C13 witness: git printed a remote's HEAD pointer between two branches, and
\* a name that has "/HEAD" inside it.
C13_Witness ==
    /\ pc = "returned"
    /\ input.fn = "getRecentBranches"
    /\ input.lines = <<OriginMain, OriginHead, HeadInside>>
    /\ output = <<[list |-> <<OriginMain, HeadInside>>, failed |-> FALSE]>>

\* C14: in Filtering mode no key ends the session; the cancel and confirm
\* keys, and only they, leave Filtering mode (for Browsing mode); q, j, k
\* and / are appended to filterText; and every other key with a name of
\* several characters leaves the whole view state as it was.
C14_FilteringKeys ==
    [][(KeyStep /\ filterMode)
       => (/\ pc' = "running"
           /\ lastKey' \in {"esc", "enter"} <=> ~filterMode'
           /\ lastKey' \in {"q", "j", "k", "/"}
              => (/\ filterText' = Append(filterText, lastKey')
                  /\ UNCHANGED <<selected, filteredApplied, allBranches>>)
           /\ (Len(lastKey') > 1 /\ lastKey' \notin {"esc", "enter", "backspace"})
              => UNCHANGED modelVars)]_vars

\* C14 witness: q and / were typed in Filtering mode and are the filter text.
C14_Witness ==
    /\ filterMode
    /\ pc = "running"
    /\ lastMode = "Filtering"
    /\ filterText = <<"q", "/">>

\* C15 (as claimed): whenever a filter is committed and the selector is in
\* Browsing mode, visible is the subsequence of BranchList whose entries
\* contain the retained filterText as a case-insensitive substring.
C15_CommittedFilterDescribesList ==
    (filteredApplied /\ ~filterMode) => branches = Matching(filterText)

RECURSIVE SubsequenceFrom(_, _, _, _)
SubsequenceFrom(sub, i, full, j) ==
    IF i > Len(sub) THEN TRUE
    ELSE IF j > Len(full) THEN FALSE
    ELSE IF sub[i] = full[j] THEN SubsequenceFrom(sub, i + 1, full, j + 1)
    ELSE SubsequenceFrom(sub, i, full, j + 1)

\* sub is full with some entries left out, the others in their order
IsSubsequence(sub, full) == SubsequenceFrom(sub, 1, full, 1)

\* C16: no step changes BranchList, and in every reachable state visible is
\* an order-preserving subsequence of BranchList.
C16_VisibleIsSubsequence ==
    /\ [][allBranches' = allBranches]_vars
    /\ [](IsSubsequence(branches, allBranches))

\* C16 witness: a committed filter shows two of the four branches, and the
\* cursor has moved on the filtered list.
C16_Witness ==
    /\ allBranches = ScenarioList
    /\ filteredApplied
    /\ ~filterMode
    /\ branches = <<FeatureLogin, FeatureSignup>>
    /\ cursor = 1
    /\ pc = "running"

\* the frame of a navigation key in Browsing mode
OnlyCursorAndWindowMay ==
    /\ UNCHANGED <<branches, allBranches, filterMode, filterText, filteredApplied,
                   selected, err>>
    /\ pc' = "running"
    /\ cursor' - cursor \in {-1, 0, 1}
    /\ offset' - offset \in {-1, 0, 1}
    /\ offset' # offset
       => (cursor' < offset \/ cursor' >= offset + PageSize)

\* C17: in Browsing mode move-up and move-down change only cursorIndex and
\* windowStart, each by at most 1, windowStart only when the new cursorIndex
\* is outside [windowStart, windowStart + 10), and the result is the rule's:
\* up: cursorIndex = max(0, cursorIndex - 1), then windowStart = cursorIndex
\* if cursorIndex < windowStart; down: cursorIndex = min(len(visible) - 1,
\* cursorIndex + 1) on a non-empty list, then windowStart += 1 if
\* cursorIndex >= windowStart + 10.
C17_NavigationRule ==
    [][(KeyStep /\ ~filterMode /\ lastKey' \in {"up", "k", "down", "j"})
       => (/\ OnlyCursorAndWindowMay
           /\ lastKey' \in {"up", "k"}
              => (/\ cursor' = IF cursor - 1 > 0 THEN cursor - 1 ELSE 0
                  /\ offset' = IF cursor' < offset THEN cursor' ELSE offset)
           /\ lastKey' \in {"down", "j"}
              => (/\ cursor' = IF Len(branches) = 0 THEN cursor
                               ELSE IF cursor + 1 < Len(branches) - 1
                               THEN cursor + 1
                               ELSE Len(branches) - 1
                  /\ offset' = IF cursor' >= offset + PageSize
                               THEN offset + 1
                               ELSE offset))]_vars

\* C17 witness: the window had scrolled down by two and move-up has just
\* pulled it back by one, the cursor on its first row.
C17_Witness ==
    /\ lastKey = "up"
    /\ lastMode = "Browsing"
    /\ pc = "running"
    /\ cursor = 1
    /\ offset = 1

\* C18: in every state without a source error and with a non-empty visible
\* list, the rows drawn are visible[windowStart .. min(windowStart + 10,
\* len(visible)) - 1] in order, at most 10, and exactly one row is
\* highlighted, the one at cursorIndex; with an empty visible list a
\* no-branches or no-matches message is drawn and no row.
C18_RenderedPage ==
    ~err =>
       IF Len(branches) > 0
       THEN LET last == IF offset + PageSize < Len(branches)
                        THEN offset + PageSize
                        ELSE Len(branches)
            IN  /\ View.kind = "list"
                /\ Len(View.rows) = last - offset
                /\ Len(View.rows) >= 1
                /\ Len(View.rows) <= PageSize
                /\ \A k \in 1..Len(View.rows) :
                       /\ View.rows[k].branch = branches[offset + k]
                       /\ View.rows[k].highlighted <=> (offset + k - 1 = cursor)
                /\ Cardinality({k \in 1..Len(View.rows) : View.rows[k].highlighted}) = 1
       ELSE /\ View.kind \in {"noBranches", "noMatch"}
            /\ View.rows = <<>>

\* C18 witness: the window has scrolled, a full page is drawn and the
\* highlighted row is its last.
C18_Witness ==
    /\ ~err
    /\ offset > 0
    /\ Len(View.rows) = PageSize
    /\ View.rows[PageSize].highlighted
    /\ View.rows[1].branch = branches[offset + 1]

\* C19: in Browsing mode with no filter committed, visible is BranchList.
C19_UnfilteredBrowsingShowsAll ==
    (~filterMode /\ ~filteredApplied) => branches = allBranches

\* C19 witness: Filtering mode on a list of several branches has just been
\* cancelled with Esc.
C19_Witness ==
    /\ lastKey = "esc"
    /\ lastMode = "Filtering"
    /\ ~filterMode
    /\ ~filteredApplied
    /\ pc = "running"
    /\ Len(allBranches) > 1
    /\ branches = allBranches

\* C20: while the session runs the cancel key can always be pressed; pressed
\* in Filtering mode or on a committed filter it leads to Browsing mode with
\* no filter, and pressed there it ends the session with nothing selected
\* (so at most two presses end it), with no checkout; once the session has
\* ended no key is handled, the final view state never changes, and after
\* the exit nothing happens at all.
C20_EscEndsSessionOnce ==
    /\ [](pc = "running" => ENABLED (FilterEsc \/ NormalEsc))
    /\ [][(KeyStep /\ lastKey' = "esc")
          => IF filterMode \/ filteredApplied
             THEN pc' = "running" /\ ~filterMode' /\ ~filteredApplied'
             ELSE pc' = "quit" /\ ~selected']_vars
    /\ []((pc \in {"quit", "exited"} /\ lastKey = "esc")
          => (~selected /\ checkouts = <<>>))
    /\ [][pc # "running"
          => (/\ pc = "quit"
              /\ pc' = "exited"
              /\ lastKey' = lastKey
              /\ UNCHANGED modelVars)]_vars

\* C20 witness: Esc was pressed in Filtering mode and again in Browsing
\* mode, and the process has exited with code 0 and no checkout.
C20_Witness ==
    /\ pc = "exited"
    /\ lastKey = "esc"
    /\ ~err
    /\ allBranches = ScenarioList
    /\ branches = allBranches
    /\ exitCode = 0
    /\ checkouts = <<>>

====
